---- MODULE Spec2Model ----
(***************************************************************************)
(* Model of the Agentic-Hackathon repository: the three-stage LangGraph    *)
(* pipeline of main.py (finops -> performance -> moderator) with the       *)
(* prompts its nodes compile and the report analyze_infrastructure prints, *)
(* the first-bracket / last-bracket JSON extraction each stage applies to  *)
(* the model's completion, the standalone agents of agents/, and the       *)
(* locator parsing and repository traversal of data/github_extractor.py.   *)
(*                                                                         *)
(* Text is a sequence of chunks.  A structural character (a bracket, a     *)
(* brace, a quote, a colon, a comma, a backslash, a blank, a newline, a    *)
(* digit) is always a chunk of its own; any other chunk ("a",              *)
(* "description", "github.com") stands for a run of characters that holds  *)
(* none of the structural ones.  The literals null and true are chunks.    *)
(* Numbers are unsigned integers (no sign, fraction or exponent).          *)
(***************************************************************************)
EXTENDS Integers, Sequences, FiniteSets, TLC

VARIABLES
    pc,                    \* node the graph runs next, "END", or how the run died
    terraform_config,      \* AgentState.terraform_config
    cloud_stats,           \* AgentState.cloud_stats
    finops_proposals,      \* AgentState.finops_proposals
    performance_feedback,  \* AgentState.performance_feedback
    final_recommendation,  \* AgentState.final_recommendation
    turn_count,            \* AgentState.turn_count
    negotiation_history,   \* AgentState.negotiation_history
    stream_events,         \* node names of the events app.stream has yielded
    prompts,               \* the prompts llm.invoke has been given, in order
    final_state,           \* analyze_infrastructure's final_state
    printed,               \* the stage results analyze_infrastructure has printed
    invoker,               \* the completion function, as far as it has been asked
    runs,                  \* for each run compared, the state after each of its stages
    raw,                   \* input of the function under study (completion or URL)
    op,                    \* which function was applied to raw ("none" before)
    result,                \* what it returned or raised
    repository,            \* the files of the repository behind the locator, with sizes
    stack,                 \* items recursive_fetch still has to visit, next first
    collected_files,       \* extract_repo_code's collected_files
    requests,              \* the HTTP requests made so far, each with its outcome
    xpc                    \* where extract_repo_code is ("idle" when not called)

vars == <<pc, terraform_config, cloud_stats, finops_proposals, performance_feedback,
          final_recommendation, turn_count, negotiation_history, stream_events,
          prompts, final_state, printed, invoker, runs,
          raw, op, result, repository, stack, collected_files, requests, xpc>>

pipelineVars == <<pc, terraform_config, cloud_stats, finops_proposals,
                  performance_feedback, final_recommendation, turn_count,
                  negotiation_history, stream_events, prompts, final_state, printed,
                  invoker, runs>>

reportVars == <<final_state, printed>>

twinVars == <<invoker, runs>>

functionVars == <<raw, op, result>>

collectorVars == <<repository, stack, collected_files, requests, xpc>>

\* extract_repo_code is not running.
CollectorIdle ==
    /\ repository = <<>>
    /\ stack = <<>>
    /\ collected_files = <<>>
    /\ requests = <<>>
    /\ xpc = "idle"

(***************************************************************************)
(* Bounds.                                                                 *)
(***************************************************************************)
MaxFiles == 3      \* most files a repository of CollectorSpec holds
MaxLen == 4        \* longest enumerated completion, in chunks, of ExtractSpec
PipeMaxLen == 1    \* longest enumerated completion, in chunks, of the pipeline
UrlMaxLen == 6     \* longest enumerated URL body, in chunks

(***************************************************************************)
(* Text.                                                                   *)
(***************************************************************************)
Whitespace == {" ", "\n"}

\* All texts of at most n chunks over the alphabet A.
Texts(A, n) == UNION {[1..k -> A] : k \in 0..n}

\* F(x) with x evaluated once, however often F uses it (a strict LET).
Bind(x, F(_)) == CHOOSE y \in {F(v) : v \in {x}} : TRUE

Min(S) == CHOOSE x \in S : \A y \in S : x <= y
Max(S) == CHOOSE x \in S : \A y \in S : x >= y

\* str.find(c): index (from 0) of the first chunk c, -1 when there is none.
Find(s, c) ==
    LET hits == {i \in 1..Len(s) : s[i] = c}
    IN  IF hits = {} THEN -1 ELSE Min(hits) - 1

\* str.rfind(c): index (from 0) of the last chunk c, -1 when there is none.
RFind(s, c) ==
    LET hits == {i \in 1..Len(s) : s[i] = c}
    IN  IF hits = {} THEN -1 ELSE Max(hits) - 1

\* s[start:end] for 0 <= start, end <= len(s).
Slice(s, start, end) == SubSeq(s, start + 1, end)

\* str.strip(): the text without its leading and trailing whitespace.
Strip(s) ==
    LET keep == {i \in 1..Len(s) : s[i] \notin Whitespace}
    IN  IF keep = {} THEN <<>> ELSE SubSeq(s, Min(keep), Max(keep))

(***************************************************************************)
(* JSON values.  A value is a tagged tuple, so that values of different    *)
(* Python types are always comparable:                                     *)
(*   None -> <<"null">>       True -> <<"true">>      int n -> <<"num", n>>*)
(*   str  -> <<"str", text>>  list -> <<"list", items>>                    *)
(*   dict -> <<"obj", members>>, members a sequence of <<key, value>> in   *)
(*           insertion order, keys distinct.                               *)
(***************************************************************************)
JNull == <<"null">>
JTrue == <<"true">>
JNum(n) == <<"num", n>>
JStr(text) == <<"str", text>>
JList(items) == <<"list", items>>
JObj(members) == <<"obj", members>>

IsList(v) == v[1] = "list"   \* isinstance(v, list)
IsDict(v) == v[1] = "obj"    \* isinstance(v, dict)

DigitChunks == <<"0", "1", "2", "3", "4", "5", "6", "7", "8", "9">>
Digits == {DigitChunks[i] : i \in 1..Len(DigitChunks)}
DigitValue(d) == (CHOOSE i \in 1..Len(DigitChunks) : DigitChunks[i] = d) - 1

\* int(digits)
RECURSIVE ToInt(_)
ToInt(ds) ==
    IF ds = <<>> THEN 0
    ELSE ToInt(SubSeq(ds, 1, Len(ds) - 1)) * 10 + DigitValue(ds[Len(ds)])

\* str(n) for n >= 0
RECURSIVE FromInt(_)
FromInt(n) ==
    IF n < 10 THEN <<DigitChunks[n + 1]>>
    ELSE FromInt(n \div 10) \o <<DigitChunks[(n % 10) + 1]>>

\* dict assignment d[k] = v: a key already present keeps its place.
DictSet(members, k, v) ==
    IF \E i \in 1..Len(members) : members[i][1] = k
    THEN [i \in 1..Len(members) |->
              IF members[i][1] = k THEN <<k, v>> ELSE members[i]]
    ELSE Append(members, <<k, v>>)

(***************************************************************************)
(* json.loads: the decoder of the standard library, as the stages call it. *)
(* A scan yields [ok, val, next]: next is the position after the value.    *)
(***************************************************************************)
ScanFail == [ok |-> FALSE, val |-> JNull, next |-> 0]
ScanOk(v, n) == [ok |-> TRUE, val |-> v, next |-> n]

\* First position >= i that holds no whitespace (Len(s) + 1 when none).
SkipWs(s, i) ==
    LET stop == {j \in i..Len(s) : s[j] \notin Whitespace}
    IN  IF stop = {} THEN Len(s) + 1 ELSE Min(stop)

\* Literal escapes of a JSON string: the chunk after a backslash.
Unescape(c) == IF c = "n" THEN "\n" ELSE c
EscapeChunks == {"\"", "\\", "/", "n"}

\* The string whose opening quote is just before position i.
RECURSIVE ScanString(_, _, _)
ScanString(s, i, acc) ==
    IF i > Len(s) THEN ScanFail                       \* unterminated string
    ELSE IF s[i] = "\"" THEN ScanOk(JStr(acc), i + 1)
    ELSE IF s[i] = "\\" THEN
        IF i + 1 <= Len(s) /\ s[i + 1] \in EscapeChunks
        THEN ScanString(s, i + 2, Append(acc, Unescape(s[i + 1])))
        ELSE ScanFail                                 \* invalid \escape
    ELSE IF s[i] = "\n" THEN ScanFail                 \* invalid control character
    ELSE ScanString(s, i + 1, Append(acc, s[i]))

\* The integer that starts at position i (a digit): 0, or [1-9][0-9]*.
ScanNumber(s, i) ==
    LET stop == {j \in i..Len(s) : s[j] \notin Digits}
        end == IF s[i] = "0" THEN i + 1
               ELSE IF stop = {} THEN Len(s) + 1 ELSE Min(stop)
    IN  ScanOk(JNum(ToInt(SubSeq(s, i, end - 1))), end)

RECURSIVE ScanValue(_, _)
RECURSIVE ScanItems(_, _, _)
RECURSIVE ScanMembers(_, _, _)

\* The value that starts at position i.
ScanValue(s, i) ==
    IF i > Len(s) THEN ScanFail
    ELSE IF s[i] = "\"" THEN ScanString(s, i + 1, <<>>)
    ELSE IF s[i] = "{" THEN
        LET k == SkipWs(s, i + 1)
        IN  IF k <= Len(s) /\ s[k] = "}" THEN ScanOk(JObj(<<>>), k + 1)
            ELSE ScanMembers(s, k, <<>>)
    ELSE IF s[i] = "[" THEN
        LET k == SkipWs(s, i + 1)
        IN  IF k <= Len(s) /\ s[k] = "]" THEN ScanOk(JList(<<>>), k + 1)
            ELSE ScanItems(s, k, <<>>)
    ELSE IF s[i] = "null" THEN ScanOk(JNull, i + 1)
    ELSE IF s[i] = "true" THEN ScanOk(JTrue, i + 1)
    ELSE IF s[i] \in Digits THEN ScanNumber(s, i)
    ELSE ScanFail

\* The items of a non-empty array; i is where the next item starts.
ScanItems(s, i, acc) ==
    Bind(ScanValue(s, i), LAMBDA r :
        IF ~r.ok THEN ScanFail
        ELSE LET k == SkipWs(s, r.next)
             IN  IF k > Len(s) THEN ScanFail
                 ELSE IF s[k] = "]" THEN ScanOk(JList(Append(acc, r.val)), k + 1)
                 ELSE IF s[k] = ","
                      THEN ScanItems(s, SkipWs(s, k + 1), Append(acc, r.val))
                 ELSE ScanFail)

\* The members of a non-empty object; i is where the next key's quote must be.
ScanMembers(s, i, acc) ==
    IF i > Len(s) \/ s[i] # "\"" THEN ScanFail
    ELSE Bind(ScanString(s, i + 1, <<>>), LAMBDA key :
             IF ~key.ok THEN ScanFail
             ELSE LET c == SkipWs(s, key.next)
                  IN  IF c > Len(s) \/ s[c] # ":" THEN ScanFail
                      ELSE Bind(ScanValue(s, SkipWs(s, c + 1)), LAMBDA r :
                               IF ~r.ok THEN ScanFail
                               ELSE LET k == SkipWs(s, r.next)
                                    IN  Bind(DictSet(acc, key.val[2], r.val), LAMBDA d :
                                        IF k > Len(s) THEN ScanFail
                                        ELSE IF s[k] = "}" THEN ScanOk(JObj(d), k + 1)
                                        ELSE IF s[k] = ","
                                             THEN ScanMembers(s, SkipWs(s, k + 1), d)
                                        ELSE ScanFail)))

\* json.loads(s): [exc, val]; exc is "JSONDecodeError" or "none".
JsonLoads(s) ==
    Bind(ScanValue(s, SkipWs(s, 1)), LAMBDA r :
        IF ~r.ok THEN [exc |-> "JSONDecodeError", val |-> JNull]
        ELSE IF SkipWs(s, r.next) <= Len(s)              \* extra data
             THEN [exc |-> "JSONDecodeError", val |-> JNull]
        ELSE [exc |-> "none", val |-> r.val])

(***************************************************************************)
(* json.dumps(v, indent=2).                                                *)
(***************************************************************************)
Newline(level) == <<"\n">> \o [i \in 1..(2 * level) |-> " "]

RECURSIVE EscapeText(_)
EscapeText(text) ==
    IF text = <<>> THEN <<>>
    ELSE LET c == text[1]
             e == IF c = "\"" THEN <<"\\", "\"">>
                  ELSE IF c = "\\" THEN <<"\\", "\\">>
                  ELSE IF c = "\n" THEN <<"\\", "n">>
                  ELSE <<c>>
         IN  e \o EscapeText(Tail(text))

DumpString(text) == <<"\"">> \o EscapeText(text) \o <<"\"">>

RECURSIVE Dump(_, _)
RECURSIVE DumpItems(_, _, _)
RECURSIVE DumpMembers(_, _, _)

\* The rendering of v nested level containers deep.
Dump(v, level) ==
    IF v[1] = "null" THEN <<"null">>
    ELSE IF v[1] = "true" THEN <<"true">>
    ELSE IF v[1] = "num" THEN FromInt(v[2])
    ELSE IF v[1] = "str" THEN DumpString(v[2])
    ELSE IF v[1] = "list" THEN
        IF v[2] = <<>> THEN <<"[", "]">>
        ELSE <<"[">> \o DumpItems(v[2], 1, level + 1) \o Newline(level) \o <<"]">>
    ELSE
        IF v[2] = <<>> THEN <<"{", "}">>
        ELSE <<"{">> \o DumpMembers(v[2], 1, level + 1) \o Newline(level) \o <<"}">>

DumpItems(items, i, level) ==
    IF i > Len(items) THEN <<>>
    ELSE (IF i > 1 THEN <<",">> ELSE <<>>) \o Newline(level)
         \o Dump(items[i], level) \o DumpItems(items, i + 1, level)

DumpMembers(members, i, level) ==
    IF i > Len(members) THEN <<>>
    ELSE (IF i > 1 THEN <<",">> ELSE <<>>) \o Newline(level)
         \o DumpString(members[i][1]) \o <<":", " ">>
         \o Dump(members[i][2], level) \o DumpMembers(members, i + 1, level)

JsonDumps(v) == Dump(v, 0)

(***************************************************************************)
(* Extraction of a structured value from a completion (main.py).           *)
(* An extraction yields [exc, val]: exc is "none" when it returns val, or  *)
(* the name of the exception that leaves the try statement.                *)
(***************************************************************************)
Returned(v) == [exc |-> "none", val |-> v]
Raised(e) == [exc |-> e, val |-> JNull]

\* Faulty variant: the slice ends at the first closing bracket, not the last.
BracketLoads_FirstClose(response_text, open, close) ==
    LET start_idx == Find(response_text, open)
        end_idx == Find(response_text, close) + 1
    IN  IF start_idx # -1 /\ end_idx > start_idx
        THEN JsonLoads(Slice(response_text, start_idx, end_idx))
        ELSE JsonLoads(response_text)

\* The body of the try up to json.loads: the slice from the first opening
\* bracket to the last closing one when both exist in that order, the whole
\* text otherwise.
BracketLoads(response_text, open, close) ==
    LET start_idx == Find(response_text, open)
        end_idx == RFind(response_text, close) + 1
    IN  IF start_idx # -1 /\ end_idx > start_idx
        THEN JsonLoads(Slice(response_text, start_idx, end_idx))
        ELSE JsonLoads(response_text)

FinopsPlaceholder(response_text) ==
    JList(<<JObj(<< <<<<"description">>, JStr(response_text)>>,
                    <<<<"estimated_savings">>, JStr(<<"TBD">>)>>,
                    <<<<"complexity">>, JStr(<<"Unknown">>)>>,
                    <<<<"affected_services">>, JList(<<>>)>> >>)>>)

PerformancePlaceholder(response_text) ==
    JList(<<JObj(<< <<<<"risk_level">>, JStr(<<"Unknown">>)>>,
                    <<<<"impact">>, JStr(response_text)>>,
                    <<<<"mitigation">>, JStr(<<"N/A">>)>>,
                    <<<<"sla_impact">>, JStr(<<"Unknown">>)>> >>)>>)

ModeratorFallback(response_text) ==
    JObj(<< <<<<"analysis">>, JStr(response_text)>>,
            <<<<"error">>, JStr(<<"Failed to parse JSON">>)>> >>)

\* Faulty variant: a parsed value that is no list is wrapped in a list.
FinopsExtract_Wraps(response_text) ==
    Bind(BracketLoads(response_text, "[", "]"), LAMBDA loaded :
        IF loaded.exc = "none"
        THEN IF ~IsList(loaded.val)
             THEN Returned(JList(<<loaded.val>>))
             ELSE Returned(loaded.val)
        ELSE IF loaded.exc = "JSONDecodeError"
             THEN Returned(FinopsPlaceholder(response_text))
        ELSE Raised(loaded.exc))

\* Faulty variant: the placeholder of the except clause carries the bracket-delimited
\* slice that failed to parse, not the whole text.
FinopsExtract_SliceDescription(response_text) ==
    LET start_idx == Find(response_text, "[")
        end_idx == RFind(response_text, "]") + 1
        json_str == IF start_idx # -1 /\ end_idx > start_idx
                    THEN Slice(response_text, start_idx, end_idx)
                    ELSE response_text
    IN  Bind(JsonLoads(json_str), LAMBDA loaded :
            IF loaded.exc = "none"
            THEN IF ~IsList(loaded.val)
                 THEN Returned(FinopsPlaceholder(response_text))
                 ELSE Returned(loaded.val)
            ELSE Returned(FinopsPlaceholder(json_str)))

\* finops_agent's try statement: proposals.
FinopsExtract(response_text) ==
    Bind(BracketLoads(response_text, "[", "]"), LAMBDA loaded :
        IF loaded.exc = "none"
        THEN IF ~IsList(loaded.val)
             THEN Returned(FinopsPlaceholder(response_text))
             ELSE Returned(loaded.val)
        ELSE IF loaded.exc = "JSONDecodeError"
             THEN Returned(FinopsPlaceholder(response_text))
        ELSE Raised(loaded.exc))

\* performance_agent's try statement: feedback.
PerformanceExtract(response_text) ==
    Bind(BracketLoads(response_text, "[", "]"), LAMBDA loaded :
        IF loaded.exc = "none"
        THEN IF ~IsList(loaded.val)
             THEN Returned(PerformancePlaceholder(response_text))
             ELSE Returned(loaded.val)
        ELSE IF loaded.exc = "JSONDecodeError"
             THEN Returned(PerformancePlaceholder(response_text))
        ELSE Raised(loaded.exc))

\* Faulty variant: the except clause names an exception json.loads does not raise.
ModeratorExtract_WrongExcept(response_text) ==
    Bind(BracketLoads(response_text, "{", "}"), LAMBDA loaded :
        IF loaded.exc = "none" THEN Returned(loaded.val)
        ELSE IF loaded.exc = "KeyError"
             THEN Returned(ModeratorFallback(response_text))
        ELSE Raised(loaded.exc))

\* moderator_agent's try statement: recommendation.
ModeratorExtract(response_text) ==
    Bind(BracketLoads(response_text, "{", "}"), LAMBDA loaded :
        IF loaded.exc = "none" THEN Returned(loaded.val)
        ELSE IF loaded.exc = "JSONDecodeError"
             THEN Returned(ModeratorFallback(response_text))
        ELSE Raised(loaded.exc))

(***************************************************************************)
(* Completions of the model invoker.                                       *)
(***************************************************************************)
Alphabet == {"[", "]", "{", "}", "\"", "1", "a", " "}
PipeAlphabet == {"[", "]", "{", "}"}

\* 'Here is the result: [<one proposal>] Thanks.'
ProposalText ==
    <<"{", "\"", "description", "\"", ":", "\"", "x", "\"", ",",
      "\"", "estimated_savings", "\"", ":", "\"", "1", "0", "%", "\"", ",",
      "\"", "complexity", "\"", ":", "\"", "Low", "\"", ",",
      "\"", "affected_services", "\"", ":", "[", "\"", "EC", "2", "\"", "]", "}">>
SampleProse == <<"Here is the result", ":", " ", "[">> \o ProposalText
               \o <<"]", " ", "Thanks.">>
SampleNotJson == <<"not", " ", "json", " ", "at", " ", "all">>
SampleObject == <<" ", "Sure", ":", "\n", "{", "\"", "top_recommendation", "\"", ":",
                  " ", "\"", "x", "\"", ",", " ", "\"", "ranking", "\"", ":", " ",
                  "[", "]", "}", "\n">>
SampleBareObject == ProposalText
SampleFlatObject == <<"{", "\"", "description", "\"", ":", " ", "\"", "x", "\"", "}">>
SampleNumber == <<"1", "2", "3">>
SampleNull == <<"null">>
SampleString == <<"\"", "a", "\"">>
SampleList == <<"[", "1", ",", " ", "true", "]">>

Samples == {SampleProse, SampleNotJson, SampleObject, SampleBareObject,
            SampleFlatObject, SampleNumber, SampleNull, SampleString, SampleList}
PipeSamples == {SampleProse, SampleNotJson, SampleObject, SampleNumber}

RawStrings == Texts(Alphabet, MaxLen) \cup Samples
Completions == Texts(PipeAlphabet, PipeMaxLen) \cup PipeSamples

(***************************************************************************)
(* The compiled graph and its nodes (main.py).                             *)
(***************************************************************************)
Nodes == {"finops", "performance", "moderator"}
EntryPoint == "finops"

\* Faulty variant: the edge out of finops skips the performance node.
Edge_SkipsPerformance(node) ==
    CASE node = "finops" -> "moderator"
      [] node = "performance" -> "moderator"
      [] node = "moderator" -> "END"

\* Faulty variant: a negotiation loop, performance hands back to finops.
Edge_BackToFinops(node) ==
    CASE node = "finops" -> "performance"
      [] node = "performance" -> "finops"
      [] node = "moderator" -> "END"

\* workflow.add_edge
Edge(node) ==
    CASE node = "finops" -> "performance"
      [] node = "performance" -> "moderator"
      [] node = "moderator" -> "END"

DefaultTerraform == <<"default terraform">>
FileTerraform == <<"terraform file">>
DefaultCloudStats == JObj(<< <<<<"EC2">>, JObj(<< <<<<"sla">>, JStr(<<"99.9%">>)>> >>)>> >>)
GivenCloudStats == JObj(<<>>)

(***************************************************************************)
(* The prompt each node compiles from the state it is given.               *)
(***************************************************************************)
\* sep.join(texts)
RECURSIVE Join(_, _)
Join(sep, texts) ==
    IF texts = <<>> THEN <<>>
    ELSE IF Len(texts) = 1 THEN texts[1]
    ELSE texts[1] \o sep \o Join(sep, Tail(texts))

\* repr(v), and str(v) as an f-string renders a value.
RECURSIVE Repr(_)
Repr(v) ==
    IF v[1] = "null" THEN <<"None">>
    ELSE IF v[1] = "true" THEN <<"True">>
    ELSE IF v[1] = "num" THEN FromInt(v[2])
    ELSE IF v[1] = "str" THEN <<"'">> \o v[2] \o <<"'">>
    ELSE IF v[1] = "list"
         THEN <<"[">> \o Join(<<",", " ">>, [i \in 1..Len(v[2]) |-> Repr(v[2][i])]) \o <<"]">>
    ELSE <<"{">> \o Join(<<",", " ">>, [i \in 1..Len(v[2]) |->
                        <<"'">> \o v[2][i][1] \o <<"'", ":", " ">> \o Repr(v[2][i][2])])
         \o <<"}">>
Str(v) == IF v[1] = "str" THEN v[2] ELSE Repr(v)

\* The lines that list the resources extract_aws_resources_from_terraform
\* finds in the configuration: a text the configuration determines.
ResourceLines(terraform_content) ==
    <<"Terraform Resources Detected", ":", "\n", "resources of">> \o terraform_content \o <<"\n">>

\* The lines of one service of cloud_stats.
ServiceLines(service, stats) ==
    <<"  - ">> \o service \o <<":", "\n">>
    \o (IF IsDict(stats)
        THEN Join(<<>>, [i \in 1..Len(stats[2]) |->
                 <<"      ">> \o stats[2][i][1] \o <<":", " ">> \o Str(stats[2][i][2]) \o <<"\n">>])
        ELSE <<"      ">> \o Str(stats) \o <<"\n">>)

format_infrastructure_analysis(terraform_content, stats) ==
    <<"AWS Infrastructure Analysis", ":", "\n">>
    \o ResourceLines(terraform_content)
    \o (IF stats[2] # <<>>
        THEN <<"Cloud Service Statistics", ":", "\n">>
             \o Join(<<>>, [i \in 1..Len(stats[2]) |-> ServiceLines(stats[2][i][1], stats[2][i][2])])
        ELSE <<>>)
    \o <<"Terraform Configuration (excerpt)", ":", "\n">> \o terraform_content

\* "\n".join(negotiation_history[-2:]) if negotiation_history else ""
HistoryContext(history) ==
    IF history = <<>> THEN <<>>
    ELSE Join(<<"\n">>, SubSeq(history, Max({1, Len(history) - 1}), Len(history)))

FinopsPrompt ==
    <<"You are a FinOps Cloud Economist", "\n">>
    \o format_infrastructure_analysis(terraform_config, cloud_stats) \o <<"\n">>
    \o (IF HistoryContext(negotiation_history) # <<>>
        THEN <<"Previous feedback", ":", " ">> \o HistoryContext(negotiation_history)
        ELSE <<"Generate initial proposals.">>)
    \o <<"\n", "Return ONLY a valid JSON array">>

PerformancePrompt ==
    <<"You are a Performance SRE", "\n">>
    \o format_infrastructure_analysis(terraform_config, cloud_stats) \o <<"\n">>
    \o <<"FinOps proposals", ":", "\n">> \o JsonDumps(finops_proposals)
    \o <<"\n", "Return ONLY a valid JSON array with one object per proposal">>

ModeratorPrompt ==
    <<"You are the Lead Cloud Architect", "\n">>
    \o format_infrastructure_analysis(terraform_config, cloud_stats) \o <<"\n">>
    \o <<"FinOps Proposals", ":", "\n">> \o JsonDumps(finops_proposals) \o <<"\n">>
    \o <<"Performance Risk Assessment", ":", "\n">> \o JsonDumps(performance_feedback)
    \o <<"\n", "Return ONLY a valid JSON object">>

\* The prompt the node builds from the current state.
PromptOf(node) ==
    CASE node = "finops" -> FinopsPrompt
      [] node = "performance" -> PerformancePrompt
      [] node = "moderator" -> ModeratorPrompt

\* Nothing of the report has been printed.
NothingPrinted ==
    [proposals |-> JNull, feedback |-> JNull, recommendation |-> <<"absent", JNull>>]

\* The state analyze_infrastructure hands to app.stream.
Init ==
    /\ pc = EntryPoint
    /\ terraform_config \in {DefaultTerraform, FileTerraform}
    /\ cloud_stats \in {DefaultCloudStats, GivenCloudStats}
    /\ finops_proposals = JList(<<>>)
    /\ performance_feedback = JList(<<>>)
    /\ final_recommendation = JNull
    /\ turn_count = 0
    /\ negotiation_history = <<>>
    /\ stream_events = <<>>
    /\ prompts = <<>>
    /\ final_state = JObj(<<>>)
    /\ printed = NothingPrinted
    /\ invoker = <<>>
    /\ runs = <<>>
    /\ raw = <<>>
    /\ op = "none"
    /\ result = Returned(JNull)
    /\ CollectorIdle

\* An exception leaves the running node: app.stream stops with it.  The run
\* ends "invoke_failed" (llm.invoke raised) or "extract_raised" (the node's
\* try statement let an exception out).
Abort(how) ==
    /\ pc' = how
    /\ UNCHANGED <<terraform_config, cloud_stats, finops_proposals,
                   performance_feedback, final_recommendation, turn_count,
                   negotiation_history, stream_events>>

\* finops_agent with the completion `content`.
FinopsUpdate(content) ==
    \E proposals \in {FinopsExtract(Strip(content))} :
    LET finops_msg == <<"FINOPS (Turn ">> \o FromInt(turn_count + 1)
                      \o <<")", ":", "\n">> \o JsonDumps(proposals.val)
    IN  IF proposals.exc # "none" THEN Abort("extract_raised")
        ELSE /\ finops_proposals' = proposals.val
             /\ turn_count' = turn_count + 1
             /\ negotiation_history' = Append(negotiation_history, finops_msg)
             /\ stream_events' = Append(stream_events, "finops")
             /\ pc' = Edge("finops")
             /\ UNCHANGED <<terraform_config, cloud_stats, performance_feedback,
                            final_recommendation>>

\* Faulty variant: performance_agent also returns turn_count + 1.
PerformanceUpdate_CountsTurn(content) ==
    \E feedback \in {PerformanceExtract(Strip(content))} :
    LET perf_msg == <<"PERFORMANCE (Turn ">> \o FromInt(turn_count)
                    \o <<")", ":", "\n">> \o JsonDumps(feedback.val)
    IN  /\ performance_feedback' = feedback.val
        /\ turn_count' = turn_count + 1
        /\ negotiation_history' = Append(negotiation_history, perf_msg)
        /\ stream_events' = Append(stream_events, "performance")
        /\ pc' = Edge("performance")
        /\ UNCHANGED <<terraform_config, cloud_stats, finops_proposals,
                       final_recommendation>>

\* Faulty variant: performance_agent returns a transcript of its message alone.
PerformanceUpdate_RestartsTranscript(content) ==
    \E feedback \in {PerformanceExtract(Strip(content))} :
    LET perf_msg == <<"PERFORMANCE (Turn ">> \o FromInt(turn_count)
                    \o <<")", ":", "\n">> \o JsonDumps(feedback.val)
    IN  /\ performance_feedback' = feedback.val
        /\ negotiation_history' = <<perf_msg>>
        /\ stream_events' = Append(stream_events, "performance")
        /\ pc' = Edge("performance")
        /\ UNCHANGED <<terraform_config, cloud_stats, finops_proposals,
                       final_recommendation, turn_count>>

\* performance_agent with the completion `content`.
PerformanceUpdate(content) ==
    \E feedback \in {PerformanceExtract(Strip(content))} :
    LET perf_msg == <<"PERFORMANCE (Turn ">> \o FromInt(turn_count)
                    \o <<")", ":", "\n">> \o JsonDumps(feedback.val)
    IN  IF feedback.exc # "none" THEN Abort("extract_raised")
        ELSE /\ performance_feedback' = feedback.val
             /\ negotiation_history' = Append(negotiation_history, perf_msg)
             /\ stream_events' = Append(stream_events, "performance")
             /\ pc' = Edge("performance")
             /\ UNCHANGED <<terraform_config, cloud_stats, finops_proposals,
                            final_recommendation, turn_count>>

\* Faulty variant: moderator_agent returns the transcript only.
ModeratorUpdate_NoRecommendation(content) ==
    \E recommendation \in {ModeratorExtract(Strip(content))} :
    LET moderator_msg == <<"MODERATOR DECISION", ":", "\n">>
                         \o JsonDumps(recommendation.val)
    IN  /\ negotiation_history' = Append(negotiation_history, moderator_msg)
        /\ stream_events' = Append(stream_events, "moderator")
        /\ pc' = Edge("moderator")
        /\ UNCHANGED <<terraform_config, cloud_stats, finops_proposals,
                       performance_feedback, turn_count, final_recommendation>>

\* moderator_agent with the completion `content`.
ModeratorUpdate(content) ==
    \E recommendation \in {ModeratorExtract(Strip(content))} :
    LET moderator_msg == <<"MODERATOR DECISION", ":", "\n">>
                         \o JsonDumps(recommendation.val)
    IN  IF recommendation.exc # "none" THEN Abort("extract_raised")
        ELSE /\ final_recommendation' = JStr(moderator_msg)
             /\ negotiation_history' = Append(negotiation_history, moderator_msg)
             /\ stream_events' = Append(stream_events, "moderator")
             /\ pc' = Edge("moderator")
             /\ UNCHANGED <<terraform_config, cloud_stats, finops_proposals,
                            performance_feedback, turn_count>>

Finops ==
    /\ pc = "finops"
    /\ prompts' = Append(prompts, FinopsPrompt)
    /\ \E content \in Completions : FinopsUpdate(content)
    /\ UNCHANGED <<reportVars, twinVars, functionVars, collectorVars>>

Performance ==
    /\ pc = "performance"
    /\ prompts' = Append(prompts, PerformancePrompt)
    /\ \E content \in Completions : PerformanceUpdate(content)
    /\ UNCHANGED <<reportVars, twinVars, functionVars, collectorVars>>

Moderator ==
    /\ pc = "moderator"
    /\ prompts' = Append(prompts, ModeratorPrompt)
    /\ \E content \in Completions : ModeratorUpdate(content)
    /\ UNCHANGED <<reportVars, twinVars, functionVars, collectorVars>>

\* llm.invoke raises in the node about to run: nothing catches it.
InvokeFails ==
    /\ pc \in Nodes
    /\ prompts' = Append(prompts, PromptOf(pc))
    /\ Abort("invoke_failed")
    /\ UNCHANGED <<reportVars, twinVars, functionVars, collectorVars>>

(***************************************************************************)
(* analyze_infrastructure once list(app.stream(...)) has returned.         *)
(***************************************************************************)
\* dict.get(key, default)
DictGet(members, k, default) ==
    IF \E i \in 1..Len(members) : members[i][1] = k
    THEN members[CHOOSE i \in 1..Len(members) : members[i][1] = k][2]
    ELSE default

\* dict.update(other)
RECURSIVE DictUpdate(_, _)
DictUpdate(members, other) ==
    IF other = <<>> THEN members
    ELSE DictUpdate(DictSet(members, other[1][1], other[1][2]), Tail(other))

\* bool(v)
Truthy(v) ==
    CASE v[1] = "null" -> FALSE
      [] v[1] = "true" -> TRUE
      [] v[1] = "num" -> v[2] # 0
      [] OTHER -> v[2] # <<>>

\* The transcript as the i-th event carries it.
HistoryValue(i) == JList([j \in 1..i |-> JStr(negotiation_history[j])])

\* state_values of the i-th event: the dict its node returned.  No later node
\* returns the same key except negotiation_history, so the values are read
\* from the state the graph merged them into.
StateValues(i) ==
    CASE stream_events[i] = "finops" ->
             << <<<<"finops_proposals">>, finops_proposals>>,
                <<<<"turn_count">>, JNum(turn_count)>>,
                <<<<"negotiation_history">>, HistoryValue(i)>> >>
      [] stream_events[i] = "performance" ->
             << <<<<"performance_feedback">>, performance_feedback>>,
                <<<<"negotiation_history">>, HistoryValue(i)>> >>
      [] stream_events[i] = "moderator" ->
             << <<<<"final_recommendation">>, final_recommendation>>,
                <<<<"negotiation_history">>, HistoryValue(i)>> >>

\* final_state after the loop over the events from the i-th on.
RECURSIVE MergeEvents(_, _)
MergeEvents(members, i) ==
    IF i > Len(stream_events) THEN members
    ELSE MergeEvents(DictUpdate(members, StateValues(i)), i + 1)

\* Whether `for x in v` with x.get(...) in its body raises.
EntriesRaise(v) ==
    CASE v[1] = "list" -> \E i \in 1..Len(v[2]) : ~IsDict(v[2][i])
      [] v[1] = "str" -> v[2] # <<>>
      [] v[1] = "obj" -> v[2] # <<>>
      [] OTHER -> TRUE

\* Whether ', '.join(services) raises for a truthy services.
JoinRaises(services) ==
    CASE services[1] = "list" -> \E i \in 1..Len(services[2]) : services[2][i][1] # "str"
      [] services[1] = "str" -> FALSE
      [] services[1] = "obj" -> FALSE
      [] OTHER -> TRUE

ServicesRaise(entry) ==
    LET services == DictGet(entry[2], <<"affected_services">>, JList(<<>>))
    IN  Truthy(services) /\ JoinRaises(services)

\* Whether printing the parsed recommendation raises inside the try.
PrintingRaises(rec_json) ==
    \/ ~IsDict(rec_json)
    \/ /\ IsDict(rec_json)
       /\ LET ranking == DictGet(rec_json[2], <<"ranking">>, JList(<<>>))
              steps == DictGet(rec_json[2], <<"implementation_steps">>, JNull)
          IN  \/ EntriesRaise(ranking)
              \/ \E i \in 1..Len(ranking[2]) : ServicesRaise(ranking[2][i])
              \/ Truthy(steps) /\ steps[1] \in {"true", "num"}

\* The re-parse of the text rec_data in the try statement of the report:
\* "skipped" when the if statement finds no "{" before a "}".
ReportLoads(rec_data) ==
    LET start_idx == Find(rec_data, "{")
        end_idx == RFind(rec_data, "}") + 1
    IN  IF start_idx # -1 /\ end_idx > start_idx
        THEN JsonLoads(Slice(rec_data, start_idx, end_idx))
        ELSE [exc |-> "skipped", val |-> JNull]

\* The recommendation section for the text rec_data: what is shown.
ShowRecommendation(rec_data) ==
    Bind(ReportLoads(rec_data), LAMBDA rec_json :
        IF rec_json.exc = "skipped" THEN <<"nothing", JNull>>
        ELSE IF rec_json.exc # "none" \/ PrintingRaises(rec_json.val)
             THEN <<"could not parse", JStr(rec_data)>>
        ELSE <<"shown", rec_json.val>>)

\* Whether printing the proposals raises (outside any try).
ProposalsRaise(proposals) ==
    \E i \in 1..Len(proposals[2]) :
        IsDict(proposals[2][i]) /\ ServicesRaise(proposals[2][i])

\* Faulty variant: the events yielded before an exception are reported too.
StreamReturned_OrRaised == pc \in {"END", "invoke_failed"}

\* list(app.stream(...)) has returned: the graph ran to END.
StreamReturned == pc = "END"

\* The events are merged into final_state and the three sections printed; an
\* exception while the proposals are printed ends the report there.
Report ==
    /\ StreamReturned
    /\ final_state = JObj(<<>>)
    /\ \E merged \in {MergeEvents(<<>>, 1)} :
          LET proposals == DictGet(merged, <<"finops_proposals">>, JNull)
              feedback == DictGet(merged, <<"performance_feedback">>, JNull)
              rec_data == DictGet(merged, <<"final_recommendation">>, JNull)
          IN  /\ final_state' = JObj(merged)
              /\ IF Truthy(proposals) /\ ProposalsRaise(proposals)
                 THEN printed' = [proposals |-> proposals, feedback |-> JNull,
                                  recommendation |-> <<"raised", JNull>>]
                 ELSE printed' =
                            [proposals |-> IF Truthy(proposals) THEN proposals ELSE JNull,
                             feedback |-> IF Truthy(feedback) THEN feedback ELSE JNull,
                             recommendation |->
                                 IF Truthy(rec_data) THEN ShowRecommendation(rec_data[2])
                                 ELSE <<"absent", JNull>>]
    /\ UNCHANGED <<pc, terraform_config, cloud_stats, finops_proposals,
                   performance_feedback, final_recommendation, turn_count,
                   negotiation_history, stream_events, prompts,
                   twinVars, functionVars, collectorVars>>

Next == Finops \/ Performance \/ Moderator \/ InvokeFails \/ Report

Spec == Init /\ [][Next]_vars

\* The graph executor runs the node that is next as soon as the one before it
\* has returned: a node that can run does run.
Advance == pc \in Nodes /\ pc' = Edge(pc)
LiveSpec == Spec /\ WF_pc(Advance)

(***************************************************************************)
(* Two runs of the graph on the same input with llm.invoke replaced by one *)
(* function from prompts to completions.  The function is chosen as it is  *)
(* asked: a prompt seen before gets the completion it got then.  The       *)
(* second run starts when the first has reached END.                       *)
(***************************************************************************)
\* Faulty variant: the invoker samples, the same prompt may get another completion.
InvokerGives_Sampled(prompt, content) == TRUE

\* llm.invoke(prompt) may return content.
InvokerGives(prompt, content) ==
    prompt \in DOMAIN invoker => invoker[prompt] = content

\* The completions the function may give.
TwinCompletions == PipeSamples \cup {<<"[">>, <<"{", "}">>}

TwinInit ==
    /\ pc = EntryPoint
    /\ terraform_config \in {DefaultTerraform, FileTerraform}
    /\ cloud_stats \in {DefaultCloudStats, GivenCloudStats}
    /\ finops_proposals = JList(<<>>)
    /\ performance_feedback = JList(<<>>)
    /\ final_recommendation = JNull
    /\ turn_count = 0
    /\ negotiation_history = <<>>
    /\ stream_events = <<>>
    /\ prompts = <<>>
    /\ final_state = JObj(<<>>)
    /\ printed = NothingPrinted
    /\ invoker = <<>>
    /\ runs = << <<>> >>
    /\ raw = <<>>
    /\ op = "none"
    /\ result = Returned(JNull)
    /\ CollectorIdle

\* The fields of the state the runs are compared on.
Snapshot(proposals, feedback, history, recommendation) ==
    [finops_proposals |-> proposals, performance_feedback |-> feedback,
     negotiation_history |-> history, final_recommendation |-> recommendation]

\* The node's prompt has been answered with content and the node has run.
Answered(prompt, content) ==
    /\ invoker' = (prompt :> content) @@ invoker
    /\ prompts' = Append(prompts, prompt)
    /\ runs' = [runs EXCEPT ![Len(runs)] =
                    Append(@, Snapshot(finops_proposals', performance_feedback',
                                       negotiation_history', final_recommendation'))]
    /\ UNCHANGED <<reportVars, functionVars, collectorVars>>

TwinFinops ==
    /\ pc = "finops"
    /\ \E content \in TwinCompletions :
          /\ InvokerGives(FinopsPrompt, content)
          /\ FinopsUpdate(content)
          /\ Answered(FinopsPrompt, content)

TwinPerformance ==
    /\ pc = "performance"
    /\ \E content \in TwinCompletions :
          /\ InvokerGives(PerformancePrompt, content)
          /\ PerformanceUpdate(content)
          /\ Answered(PerformancePrompt, content)

TwinModerator ==
    /\ pc = "moderator"
    /\ \E content \in TwinCompletions :
          /\ InvokerGives(ModeratorPrompt, content)
          /\ ModeratorUpdate(content)
          /\ Answered(ModeratorPrompt, content)

\* The second run: app.stream is given the same input as the first.
SecondRun ==
    /\ pc = "END"
    /\ Len(runs) = 1
    /\ pc' = EntryPoint
    /\ finops_proposals' = JList(<<>>)
    /\ performance_feedback' = JList(<<>>)
    /\ final_recommendation' = JNull
    /\ turn_count' = 0
    /\ negotiation_history' = <<>>
    /\ stream_events' = <<>>
    /\ prompts' = <<>>
    /\ runs' = Append(runs, <<>>)
    /\ UNCHANGED <<terraform_config, cloud_stats, invoker, reportVars,
                   functionVars, collectorVars>>

TwinNext == TwinFinops \/ TwinPerformance \/ TwinModerator \/ SecondRun

TwinSpec == TwinInit /\ [][TwinNext]_vars

(***************************************************************************)
(* The extraction of each stage as a function of the completion.           *)
(***************************************************************************)
\* No pipeline is running while a function is studied on its own.
PipelineIdle ==
    /\ pc = "idle"
    /\ terraform_config = DefaultTerraform
    /\ cloud_stats = DefaultCloudStats
    /\ finops_proposals = JList(<<>>)
    /\ performance_feedback = JList(<<>>)
    /\ final_recommendation = JNull
    /\ turn_count = 0
    /\ negotiation_history = <<>>
    /\ stream_events = <<>>
    /\ prompts = <<>>
    /\ final_state = JObj(<<>>)
    /\ printed = NothingPrinted
    /\ invoker = <<>>
    /\ runs = <<>>

ExtractInit ==
    /\ PipelineIdle
    /\ raw \in RawStrings
    /\ op = "none"
    /\ result = Returned(JNull)
    /\ CollectorIdle

\* response.content.strip() and the try statement of finops_agent.
ApplyFinopsExtract ==
    /\ op = "none"
    /\ op' = "finops"
    /\ result' = FinopsExtract(Strip(raw))
    /\ UNCHANGED <<raw, pipelineVars, collectorVars>>

\* response.content.strip() and the try statement of performance_agent.
ApplyPerformanceExtract ==
    /\ op = "none"
    /\ op' = "performance"
    /\ result' = PerformanceExtract(Strip(raw))
    /\ UNCHANGED <<raw, pipelineVars, collectorVars>>

\* response.content.strip() and the try statement of moderator_agent.
ApplyModeratorExtract ==
    /\ op = "none"
    /\ op' = "moderator"
    /\ result' = ModeratorExtract(Strip(raw))
    /\ UNCHANGED <<raw, pipelineVars, collectorVars>>

(***************************************************************************)
(* The standalone agents of agents/: what each makes of the completion.    *)
(***************************************************************************)
\* agents/finops.py, finops_agent: the try statement and the return.
AgentsFinopsExtract(response_text) ==
    Bind(BracketLoads(response_text, "[", "]"), LAMBDA loaded :
        IF loaded.exc = "none"
        THEN IF IsList(loaded.val) THEN Returned(loaded.val)
             ELSE Returned(FinopsPlaceholder(response_text))
        ELSE IF loaded.exc = "JSONDecodeError"
             THEN Returned(FinopsPlaceholder(response_text))
        ELSE Raised(loaded.exc))

\* agents/moderator.py, moderator_agent: json.loads(response_text) in no try.
AgentsModeratorExtract(response_text) ==
    Bind(JsonLoads(response_text), LAMBDA loaded :
        IF loaded.exc = "none" THEN Returned(loaded.val) ELSE Raised(loaded.exc))

SummarizerFallback(response_text) ==
    JObj(<< <<<<"error">>, JStr(<<"Failed to parse JSON response">>)>>,
            <<<<"raw_response">>, JStr(response_text)>> >>)

\* agents/code_summarizer.py, code_summarizer_agent: the whole completion is
\* parsed.
SummarizerExtract(response_text) ==
    Bind(JsonLoads(response_text), LAMBDA loaded :
        IF loaded.exc = "none" THEN Returned(loaded.val)
        ELSE IF loaded.exc = "JSONDecodeError"
             THEN Returned(SummarizerFallback(response_text))
        ELSE Raised(loaded.exc))

ApplyAgentsFinops ==
    /\ op = "none"
    /\ op' = "agents.finops"
    /\ result' = AgentsFinopsExtract(Strip(raw))
    /\ UNCHANGED <<raw, pipelineVars, collectorVars>>

ApplyAgentsModerator ==
    /\ op = "none"
    /\ op' = "agents.moderator"
    /\ result' = AgentsModeratorExtract(Strip(raw))
    /\ UNCHANGED <<raw, pipelineVars, collectorVars>>

ApplySummarizer ==
    /\ op = "none"
    /\ op' = "agents.code_summarizer"
    /\ result' = SummarizerExtract(Strip(raw))
    /\ UNCHANGED <<raw, pipelineVars, collectorVars>>

ExtractNext ==
    \/ ApplyFinopsExtract \/ ApplyPerformanceExtract \/ ApplyModeratorExtract
    \/ ApplyAgentsFinops \/ ApplyAgentsModerator \/ ApplySummarizer

ExtractSpec == ExtractInit /\ [][ExtractNext]_vars

(***************************************************************************)
(* parse_github_url (data/github_extractor.py).                            *)
(***************************************************************************)
Scheme == <<"https:", "/", "/">>
UrlAlphabet == {"github.com", "not", "/", "x", ".git"}
\* A URL is a scheme, or none, and a body that starts with its host.
Urls == {scheme \o body : scheme \in {<<>>, Scheme},
                          body \in {u \in Texts(UrlAlphabet, UrlMaxLen) :
                                       u = <<>> \/ u[1] # "/"}}

\* Last position of the longest run of chunks other than "/" that starts at
\* position i (i - 1 when the run is empty): the greedy [^/]+.
RunEnd(url, i) ==
    LET stop == {j \in i..Len(url) : url[j] = "/"}
    IN  IF stop = {} THEN Len(url) ELSE Min(stop) - 1

\* Whether github\.com/([^/]+)/([^/]+) matches with "github.com" at position i.
MatchesAt(url, i) ==
    /\ url[i] = "github.com"
    /\ i + 1 <= Len(url) /\ url[i + 1] = "/"
    /\ LET ownerEnd == RunEnd(url, i + 2)
       IN  /\ ownerEnd >= i + 2
           /\ ownerEnd + 1 <= Len(url)
           /\ RunEnd(url, ownerEnd + 2) >= ownerEnd + 2

\* re.search(pattern, repo_url): the leftmost match, [found, owner, repo].
ReSearch(url) ==
    LET starts == {i \in 1..Len(url) : MatchesAt(url, i)}
    IN  IF starts = {} THEN [found |-> FALSE, owner |-> <<>>, repo |-> <<>>]
        ELSE LET i == Min(starts)
                 ownerEnd == RunEnd(url, i + 2)
             IN  [found |-> TRUE,
                  owner |-> SubSeq(url, i + 2, ownerEnd),
                  repo |-> SubSeq(url, ownerEnd + 2, RunEnd(url, ownerEnd + 2))]

\* str.replace(old, ""): every occurrence of the chunk old is removed.
RemoveAll(text, old) == SelectSeq(text, LAMBDA c : c # old)

parse_github_url(repo_url) ==
    LET match == ReSearch(repo_url)
    IN  IF ~match.found THEN Raised("ValueError")
        ELSE Returned(<<match.owner, RemoveAll(match.repo, ".git")>>)

UrlInit ==
    /\ PipelineIdle
    /\ raw \in Urls
    /\ op = "none"
    /\ result = Returned(JNull)
    /\ CollectorIdle

ApplyParseGithubUrl ==
    /\ op = "none"
    /\ op' = "parse_github_url"
    /\ result' = parse_github_url(raw)
    /\ UNCHANGED <<raw, pipelineVars, collectorVars>>

UrlNext == ApplyParseGithubUrl

UrlSpec == UrlInit /\ [][UrlNext]_vars

(***************************************************************************)
(* Claims about the pipeline, checked under Spec.                          *)
(***************************************************************************)
StageOrder == <<"finops", "performance", "moderator">>
Executed(node) == \E i \in 1..Len(stream_events) : stream_events[i] = node

\* C1 (as stated): after every stage execution the transcript is as long as
\* turn_count, every stage incrementing turn_count once.
C1_LengthEqualsTurnCount == Len(negotiation_history) = turn_count

\* C1 (amended): every stage appends one transcript entry, so the transcript is
\* as long as the number of stages executed; turn_count is incremented by the
\* finops stage alone, so it is 0 before finops and 1 from then on, and equals
\* the transcript's length only until performance has run.
C1_TurnCountedByFinops ==
    /\ Len(negotiation_history) = Len(stream_events)
    /\ turn_count = (IF Executed("finops") THEN 1 ELSE 0)
    /\ (Len(negotiation_history) = turn_count) <=> ~Executed("performance")

C1_Witness ==
    /\ pc = "END"
    /\ Len(negotiation_history) = 3
    /\ turn_count = 1

C2_Order ==
    /\ Len(stream_events) <= Len(StageOrder)
    /\ stream_events = SubSeq(StageOrder, 1, Len(stream_events))
    /\ pc \in Nodes => pc = StageOrder[Len(stream_events) + 1]
    /\ pc = "END" <=> stream_events = StageOrder
    /\ pc \in Nodes \cup {"END", "invoke_failed"}

\* C2: a run whose model calls all return executes finops, performance and
\* moderator once each, in that order, whatever the completions hold, and then
\* reaches END: the events yielded so far are always a prefix of that order,
\* the node to run next is the one after them, no run ends because a node's
\* extraction raised, and every run ends at END unless a model call failed.
C2_LinearOrder == []C2_Order /\ <>(pc = "END" \/ pc = "invoke_failed")

C2_Witness ==
    /\ pc = "END"
    /\ stream_events = StageOrder
    /\ finops_proposals = FinopsPlaceholder(SampleNotJson)
    /\ performance_feedback # PerformancePlaceholder(SampleNotJson)

\* C3: final_recommendation is set exactly when the moderator stage has
\* executed: None initially and after finops and performance, a text once
\* moderator completes, whether its completion parsed or not.
C3_FinalIffModerator ==
    /\ (final_recommendation # JNull) <=> Executed("moderator")
    /\ Executed("moderator") =>
           /\ final_recommendation[1] = "str"
           /\ final_recommendation[2] = negotiation_history[Len(negotiation_history)]

C3_Witness ==
    /\ pc = "END"
    /\ final_recommendation =
           JStr(<<"MODERATOR DECISION", ":", "\n">>
                \o JsonDumps(ModeratorFallback(SampleNotJson)))

(***************************************************************************)
(* Claims about the extraction, checked under ExtractSpec.                 *)
(***************************************************************************)
\* The text the try statement works on.
ResponseText == Strip(raw)

\* An opening bracket somewhere before a closing one.
HasPair(text, open, close) ==
    \E i, j \in 1..Len(text) : i < j /\ text[i] = open /\ text[j] = close

\* Where a syntactically valid JSON array lies in the text: <<first, last>>.
EmbeddedArrays(text) ==
    {ij \in (1..Len(text)) \X (1..Len(text)) :
        /\ ij[1] < ij[2]
        /\ text[ij[1]] = "["
        /\ text[ij[2]] = "]"
        /\ JsonLoads(SubSeq(text, ij[1], ij[2])).exc = "none"}

ExpectedProposalPlaceholder(text) ==
    JList(<<JObj(<< <<<<"description">>, JStr(text)>>,
                    <<<<"estimated_savings">>, JStr(<<"TBD">>)>>,
                    <<<<"complexity">>, JStr(<<"Unknown">>)>>,
                    <<<<"affected_services">>, JList(<<>>)>> >>)>>)

ExpectedFallbackRecord(text) ==
    JObj(<< <<<<"analysis">>, JStr(text)>>,
            <<<<"error">>, JStr(<<"Failed to parse JSON">>)>> >>)

ExpectedSampleProposals ==
    JList(<<JObj(<< <<<<"description">>, JStr(<<"x">>)>>,
                    <<<<"estimated_savings">>, JStr(<<"1", "0", "%">>)>>,
                    <<<<"complexity">>, JStr(<<"Low">>)>>,
                    <<<<"affected_services">>, JList(<<JStr(<<"EC", "2">>)>>)>> >>)>>)

OutermostArrays(text) ==
    LET all == EmbeddedArrays(text)
    IN  {ij \in all : \A kl \in all : (kl[1] <= ij[1] /\ ij[2] <= kl[2]) => kl = ij}

\* C5 (as stated): when a syntactically valid JSON array lies in the
\* completion, whatever text precedes and follows it, the finops extraction
\* returns exactly that array.
C5_AnyEmbeddedArray ==
    op = "finops" =>
        \A ij \in OutermostArrays(raw) :
            result = Returned(JsonLoads(SubSeq(raw, ij[1], ij[2])).val)

\* C5 (amended): when the text before a syntactically valid JSON array holds
\* no '[' and the text after it holds no ']', the finops extraction returns
\* exactly that array and not the placeholder; 'Here is the result: [<one
\* proposal>] Thanks.' yields the one-element array with its four fields.
C5_ArrayBetweenBracketFreeProse ==
    op = "finops" =>
        /\ \A ij \in EmbeddedArrays(raw) :
               (/\ \A k \in 1..(ij[1] - 1) : raw[k] # "["
                /\ \A k \in (ij[2] + 1)..Len(raw) : raw[k] # "]")
               => result = Returned(JsonLoads(SubSeq(raw, ij[1], ij[2])).val)
        /\ raw = SampleProse => result = Returned(ExpectedSampleProposals)

C5_Witness ==
    /\ op = "finops"
    /\ raw = SampleProse
    /\ result = Returned(ExpectedSampleProposals)

\* C6 (as stated): a completion with no '[' before a ']' gives exactly the
\* placeholder list in array shape, and a completion with no '{' before a '}'
\* gives exactly the fallback record in object shape, JSON scalars included.
C6_NoPairGivesFallback ==
    /\ (op = "finops" /\ ~HasPair(ResponseText, "[", "]"))
           => result = Returned(ExpectedProposalPlaceholder(ResponseText))
    /\ (op = "moderator" /\ ~HasPair(ResponseText, "{", "}"))
           => result = Returned(ExpectedFallbackRecord(ResponseText))

\* C7 (as stated): the moderator extraction always returns a JSON object, the
\* parsed one or, on a parse error or a value of another type, the fallback
\* record {analysis: <trimmed text>, error: "Failed to parse JSON"}.
C7_ModeratorResultIsObject ==
    op = "moderator" =>
        /\ result.exc = "none"
        /\ IsDict(result.val)
        /\ \/ result.val = ExpectedFallbackRecord(ResponseText)
           \/ \E i, j \in 1..Len(raw) :
                  JsonLoads(SubSeq(raw, i, j)) = Returned(result.val)

\* C8: whenever json.loads fails in the finops extraction, the output is the
\* one-element list [{description: t, estimated_savings: "TBD", complexity:
\* "Unknown", affected_services: []}] with t the whole trimmed completion, not
\* the bracket-delimited slice; 'not json at all' gives that description.
C8_PlaceholderCarriesWholeText ==
    op = "finops" =>
        /\ BracketLoads(ResponseText, "[", "]").exc # "none"
               => result = Returned(ExpectedProposalPlaceholder(ResponseText))
        /\ raw = SampleNotJson =>
               result.val[2][1][2][1] =
                   <<<<"description">>,
                     JStr(<<"not", " ", "json", " ", "at", " ", "all">>)>>

C8_Witness ==
    /\ op = "finops"
    /\ raw = <<" ", "[", "a", " ">>
    /\ result = Returned(ExpectedProposalPlaceholder(<<"[", "a">>))

\* C9 (as stated): when the text parses to a bare JSON object, the finops
\* extraction returns the one-element list holding that object.
C9_BareObjectIsWrapped ==
    (op = "finops" /\ JsonLoads(ResponseText).exc = "none"
                   /\ IsDict(JsonLoads(ResponseText).val))
        => result = Returned(JList(<<JsonLoads(ResponseText).val>>))

\* C9 (amended): when json.loads returns a bare JSON object in the finops
\* extraction (the text has no '[' before a ']' and parses to an object), the
\* result is the one-element placeholder list built from the trimmed text; the
\* parsed object is dropped, not wrapped.
C9_BareObjectGivesPlaceholder ==
    (op = "finops" /\ ~HasPair(ResponseText, "[", "]")
                   /\ JsonLoads(ResponseText).exc = "none"
                   /\ IsDict(JsonLoads(ResponseText).val))
        => /\ result = Returned(ExpectedProposalPlaceholder(ResponseText))
           /\ result # Returned(JList(<<JsonLoads(ResponseText).val>>))

C9_Witness ==
    /\ op = "finops"
    /\ raw = SampleFlatObject
    /\ result = Returned(ExpectedProposalPlaceholder(SampleFlatObject))

(***************************************************************************)
(* Claims about parse_github_url, checked under UrlSpec.                   *)
(***************************************************************************)
\* The URL without its scheme.
SchemeLess(url) ==
    IF Len(url) >= Len(Scheme) /\ SubSeq(url, 1, Len(Scheme)) = Scheme
    THEN SubSeq(url, Len(Scheme) + 1, Len(url))
    ELSE url

\* host/owner/repo[.git] with host exactly github.com: the text up to the
\* first "/" is github.com, and an owner and a repo follow it, neither empty
\* (whatever comes after the repo).
IsGithubLocator(url) ==
    LET body == SchemeLess(url)
        ownerEnd == RunEnd(body, 3)
    IN  /\ Len(body) >= 5
        /\ body[1] = "github.com"
        /\ body[2] = "/"
        /\ ownerEnd >= 3
        /\ ownerEnd + 2 <= Len(body)
        /\ body[ownerEnd + 2] # "/"

\* C10 (as stated): parse_github_url raises, and returns no pair, for every
\* URL that is not host/owner/repo[.git] with host exactly github.com.
C10_RejectsOtherHosts ==
    (op = "parse_github_url" /\ ~IsGithubLocator(raw)) => result.exc = "ValueError"

\* The repo name of https://github.com/<owner>/<name>, <name> being the repo
\* with or without one trailing ".git".
WithoutGitSuffix(name) ==
    IF Len(name) > 1 /\ name[Len(name)] = ".git"
    THEN SubSeq(name, 1, Len(name) - 1)
    ELSE name

\* C11 (as stated): for https://github.com/<owner>/<repo> with or without a
\* trailing ".git", owner and repo not empty and without "/", parse_github_url
\* returns exactly (<owner>, <repo>): one trailing ".git" is removed and the
\* name is otherwise unchanged, also when it holds ".git" elsewhere.
C11_OnlyTrailingGitRemoved ==
    op = "parse_github_url" =>
        \A k \in 1..Len(raw) :
            LET owner == SubSeq(raw, Len(Scheme) + 3, k - 1)
                name == SubSeq(raw, k + 1, Len(raw))
            IN  (/\ k > Len(Scheme) + 3
                 /\ SubSeq(raw, 1, Len(Scheme) + 2) = Scheme \o <<"github.com", "/">>
                 /\ raw[k] = "/"
                 /\ owner # <<>> /\ \A m \in 1..Len(owner) : owner[m] # "/"
                 /\ name # <<>> /\ \A m \in 1..Len(name) : name[m] # "/"
                 /\ name # <<".git">>)
                => /\ result.exc = "none"
                   /\ result.val = <<owner, WithoutGitSuffix(name)>>

(***************************************************************************)
(* data/github_extractor.py: extract_repo_code.  A file name and a path    *)
(* are texts; "/" and an extension (".py", ".md") are chunks of their own, *)
(* so that str.endswith and the substring tests of is_allowed_file are     *)
(* computed on the text.                                                   *)
(***************************************************************************)
MAX_FILE_SIZE == 200000

ALLOWED_EXTENSIONS == {".py", ".js", ".ts", ".java", ".go", ".tf", ".json"}

CICD_FILES ==
    {<<"Dockerfile">>, <<"dockerfile">>, <<"Jenkinsfile">>, <<"jenkinsfile">>,
     <<".gitlab-ci", ".yml">>, <<".gitignore">>,
     <<".github", "/", "workflows">>, <<"github", "/", "workflows">>,
     <<"azure-pipelines", ".yml">>, <<"azure-pipelines", ".yaml">>,
     <<".circleci", "/", "config", ".yml">>, <<".travis", ".yml">>,
     <<"buildspec", ".yml">>, <<"cloudbuild", ".yaml">>,
     <<"Makefile">>, <<"makefile">>, <<".dockerignore">>,
     <<"docker-compose", ".yml">>, <<"docker-compose", ".yaml">>}

\* The path patterns of is_allowed_file.
CicdPathPatterns ==
    {<<".github", "/", "workflows", "/">>, <<".gitlab", "/">>,
     <<".circleci", "/">>, <<".github", "/">>}

\* pattern in text
Contains(text, pattern) ==
    \E i \in 1..(Len(text) - Len(pattern) + 1) :
        SubSeq(text, i, i + Len(pattern) - 1) = pattern

is_allowed_file(file_name, file_path) ==
    IF file_name # <<>> /\ file_name[Len(file_name)] \in ALLOWED_EXTENSIONS THEN TRUE
    ELSE IF file_name \in CICD_FILES THEN TRUE
    ELSE LET full_path == IF file_path # <<>> THEN file_path ELSE file_name
         IN  \E pattern \in CicdPathPatterns : Contains(full_path, pattern)

\* Every path a repository of the model may hold, directories included, in
\* the order the contents API lists them.
Universe ==
    << [type |-> "dir",  path |-> <<".github">>],
       [type |-> "dir",  path |-> <<".github", "/", "workflows">>],
       [type |-> "file", path |-> <<".github", "/", "workflows", "/", "ci", ".yml">>],
       [type |-> "file", path |-> <<"Dockerfile">>],
       [type |-> "file", path |-> <<"README", ".md">>],
       [type |-> "file", path |-> <<"main", ".py">>],
       [type |-> "dir",  path |-> <<"my", ".github">>],
       [type |-> "file", path |-> <<"my", ".github", "/", "notes", ".md">>],
       [type |-> "dir",  path |-> <<"src">>],
       [type |-> "file", path |-> <<"src", "/", "app", ".js">>] >>

FilePaths == {Universe[i].path : i \in {j \in 1..Len(Universe) : Universe[j].type = "file"}}

\* Sizes a file reports: at the ceiling and one byte above it.
Sizes == {MAX_FILE_SIZE, MAX_FILE_SIZE + 1}

\* A repository is a set of files with their sizes; a directory exists when
\* a file lies under it.
Repositories ==
    UNION {[files -> Sizes] : files \in {S \in SUBSET FilePaths : Cardinality(S) <= MaxFiles}}

\* The directory a path lies in (<<>> is the root) and its last segment.
ParentOf(path) == IF RFind(path, "/") = -1 THEN <<>> ELSE Slice(path, 0, RFind(path, "/"))
NameOf(path) == Slice(path, RFind(path, "/") + 1, Len(path))

IsUnder(path, dir) ==
    /\ Len(path) > Len(dir) + 1
    /\ SubSeq(path, 1, Len(dir) + 1) = dir \o <<"/">>

Exists(repo, entry) ==
    IF entry.type = "file" THEN entry.path \in DOMAIN repo
    ELSE \E f \in DOMAIN repo : IsUnder(f, entry.path)

\* One item of a contents response.
Item(repo, entry) ==
    [type |-> entry.type, name |-> NameOf(entry.path), path |-> entry.path,
     size |-> IF entry.type = "file" THEN repo[entry.path] ELSE 0]

\* response.json() of the contents request for a directory.
Listing(repo, dir) ==
    LET entries == SelectSeq(Universe, LAMBDA e : Exists(repo, e) /\ ParentOf(e.path) = dir)
    IN  [i \in 1..Len(entries) |-> Item(repo, entries[i])]

RootItem == [type |-> "dir", name |-> <<>>, path |-> <<>>, size |-> 0]

\* response.text of a download.
TextOf(path) == <<"text of">> \o path

CollectorUrls == {Scheme \o <<"github.com", "/", "x", "/", "x", ".git">>, <<"x">>}

CollectorInit ==
    /\ PipelineIdle
    /\ raw \in CollectorUrls
    /\ op = "none"
    /\ result = Returned(JNull)
    /\ repository \in Repositories
    /\ stack = <<>>
    /\ collected_files = <<>>
    /\ requests = <<>>
    /\ xpc = "parse"

\* owner, repo = parse_github_url(repo_url); collected_files = {}; the call
\* recursive_fetch() is entered.
ParseLocator ==
    /\ xpc = "parse"
    /\ \E parsed \in {parse_github_url(raw)} :
          IF parsed.exc # "none"
          THEN /\ xpc' = "raised"
               /\ result' = parsed
               /\ stack' = stack
          ELSE /\ xpc' = "fetch"
               /\ result' = result
               /\ stack' = <<RootItem>>
    /\ op' = "extract_repo_code"
    /\ UNCHANGED <<raw, repository, collected_files, requests, pipelineVars>>

\* recursive_fetch(path): fetch_repo_contents makes the request;
\* raise_for_status() raises on a non-success status, otherwise the items of
\* the response are visited in order, before whatever was pending.
FetchRepoContents ==
    /\ xpc = "fetch"
    /\ stack # <<>>
    /\ Head(stack).type = "dir"
    /\ \E ok \in BOOLEAN :
          /\ requests' = Append(requests, [kind |-> "contents", path |-> Head(stack).path, ok |-> ok])
          /\ IF ok
             THEN /\ stack' = Listing(repository, Head(stack).path) \o Tail(stack)
                  /\ UNCHANGED <<xpc, result>>
             ELSE /\ xpc' = "raised"
                  /\ result' = Raised("HTTPStatusError")
                  /\ stack' = stack
    /\ UNCHANGED <<raw, op, repository, collected_files, pipelineVars>>

\* Faulty variant: a failed download is skipped and the traversal goes on.
ProcessFile_SkipsFailedDownload ==
    /\ xpc = "fetch"
    /\ stack # <<>>
    /\ Head(stack).type = "file"
    /\ LET file_item == Head(stack)
       IN  IF ~is_allowed_file(file_item.name, file_item.path)
           THEN /\ stack' = Tail(stack)
                /\ UNCHANGED <<collected_files, requests, xpc, result>>
           ELSE IF file_item.size > MAX_FILE_SIZE
           THEN /\ stack' = Tail(stack)
                /\ UNCHANGED <<collected_files, requests, xpc, result>>
           ELSE \E ok \in BOOLEAN :
                   /\ requests' = Append(requests, [kind |-> "download", path |-> file_item.path, ok |-> ok])
                   /\ stack' = Tail(stack)
                   /\ collected_files' = IF ok THEN (file_item.path :> TextOf(file_item.path)) @@ collected_files
                                         ELSE collected_files
                   /\ UNCHANGED <<xpc, result>>
    /\ UNCHANGED <<raw, op, repository, pipelineVars>>

\* process_file(file_item): a file outside the allowlists or above the
\* ceiling is skipped without a request; otherwise it is downloaded, and
\* raise_for_status() raises on a non-success status.
ProcessFile ==
    /\ xpc = "fetch"
    /\ stack # <<>>
    /\ Head(stack).type = "file"
    /\ LET file_item == Head(stack)
       IN  IF ~is_allowed_file(file_item.name, file_item.path)
           THEN /\ stack' = Tail(stack)
                /\ UNCHANGED <<collected_files, requests, xpc, result>>
           ELSE IF file_item.size > MAX_FILE_SIZE
           THEN /\ stack' = Tail(stack)
                /\ UNCHANGED <<collected_files, requests, xpc, result>>
           ELSE \E ok \in BOOLEAN :
                   /\ requests' = Append(requests, [kind |-> "download", path |-> file_item.path, ok |-> ok])
                   /\ IF ok
                      THEN /\ stack' = Tail(stack)
                           /\ collected_files' = (file_item.path :> TextOf(file_item.path)) @@ collected_files
                           /\ UNCHANGED <<xpc, result>>
                      ELSE /\ xpc' = "raised"
                           /\ result' = Raised("HTTPStatusError")
                           /\ UNCHANGED <<stack, collected_files>>
    /\ UNCHANGED <<raw, op, repository, pipelineVars>>

\* recursive_fetch() has returned: return collected_files.
ReturnCollected ==
    /\ xpc = "fetch"
    /\ stack = <<>>
    /\ xpc' = "returned"
    /\ result' = Returned(collected_files)
    /\ UNCHANGED <<raw, op, repository, stack, collected_files, requests, pipelineVars>>

CollectorNext == ParseLocator \/ FetchRepoContents \/ ProcessFile \/ ReturnCollected

CollectorSpec == CollectorInit /\ [][CollectorNext]_vars

(***************************************************************************)
(* The collector's contract.                                               *)
(***************************************************************************)
\* The directories the contract recognizes as CI directories.
CiDirectories == {<<".github", "/", "workflows">>, <<".gitlab">>, <<".circleci">>, <<".github">>}

\* The path lies under a directory of that name, at any depth.
LiesUnder(path, dir) ==
    \E i \in 1..Len(path) :
        /\ i = 1 \/ path[i - 1] = "/"
        /\ i + Len(dir) <= Len(path)
        /\ SubSeq(path, i, i + Len(dir)) = dir \o <<"/">>

\* What the contract admits: an allowlisted extension, a recognized build/CI
\* file name, or a place under a recognized CI directory.
Admitted(path) ==
    \/ NameOf(path)[Len(NameOf(path))] \in ALLOWED_EXTENSIONS
    \/ NameOf(path) \in CICD_FILES
    \/ \E dir \in CiDirectories : LiesUnder(path, dir)

\* C12 (as stated): when every request succeeds, the keys of the returned
\* mapping are exactly the paths of the repository's files that are admitted
\* (allowlisted extension, recognized build/CI file name, or under a
\* recognized CI directory) and report at most 200,000 bytes.
C12_KeysAreAdmittedFiles ==
    xpc = "returned" =>
        DOMAIN result.val = {f \in DOMAIN repository :
                                Admitted(f) /\ repository[f] <= MAX_FILE_SIZE}

\* C13: a request that did not succeed is the last request made (nothing
\* follows it and it is not repeated), and the call has then raised: the
\* caller holds no mapping, whatever had been collected.
C13_FailureEndsTheCall ==
    /\ \A i \in 1..Len(requests) :
          ~requests[i].ok => /\ i = Len(requests)
                             /\ xpc = "raised"
                             /\ result = Raised("HTTPStatusError")
    /\ xpc = "returned" => \A i \in 1..Len(requests) : requests[i].ok

\* A download failed after a listing and another download had succeeded and
\* a file had been collected.
C13_Witness ==
    /\ xpc = "raised"
    /\ Len(requests) >= 3
    /\ ~requests[Len(requests)].ok
    /\ requests[Len(requests)].kind = "download"
    /\ collected_files # <<>>
    /\ stack # <<>>

(***************************************************************************)
(* Claims about a failing invocation and the report, checked under Spec.   *)
(***************************************************************************)
C14_FailedState ==
    pc = "invoke_failed" =>
        /\ final_recommendation = JNull
        /\ Len(stream_events) < Len(StageOrder)
        /\ final_state = JObj(<<>>)
        /\ printed = NothingPrinted

C14_FailingStep ==
    /\ pc' = "invoke_failed" =>
           UNCHANGED <<terraform_config, cloud_stats, finops_proposals,
                       performance_feedback, final_recommendation, turn_count,
                       negotiation_history, stream_events, final_state, printed>>
    /\ pc = "invoke_failed" => UNCHANGED vars

\* C14: when llm.invoke raises in a stage, nothing catches it: the stage
\* leaves the state as it was, no later stage runs, final_recommendation
\* stays None, and analyze_infrastructure neither merges nor prints any
\* stage result, those of the stages that had completed included.
C14_InvokeFailurePropagates == []C14_FailedState /\ [][C14_FailingStep]_vars

\* The invocation of the moderator failed after finops and performance had
\* produced their results.
C14_Witness ==
    /\ pc = "invoke_failed"
    /\ stream_events = <<"finops", "performance">>
    /\ finops_proposals # JList(<<>>)
    /\ performance_feedback # JList(<<>>)
    /\ Len(prompts) = 3
    /\ printed = NothingPrinted

C16_StageFrame ==
    (pc \in Nodes /\ pc' = Edge(pc)) =>
        /\ Len(negotiation_history') = Len(negotiation_history) + 1
        /\ SubSeq(negotiation_history', 1, Len(negotiation_history)) = negotiation_history
        /\ terraform_config' = terraform_config
        /\ cloud_stats' = cloud_stats
        /\ pc = "performance" => finops_proposals' = finops_proposals
        /\ pc = "moderator" => /\ finops_proposals' = finops_proposals
                               /\ performance_feedback' = performance_feedback

\* C16: a stage appends exactly one entry at the end of the transcript and
\* leaves the earlier entries as they were; performance leaves
\* finops_proposals unchanged, moderator leaves finops_proposals and
\* performance_feedback unchanged, and no stage changes terraform_config or
\* cloud_stats.
C16_StagesKeepEarlierOutput == [][C16_StageFrame]_vars

\* All three stages have run and the first transcript entry is still the
\* message finops wrote for the proposals the state still holds.
C16_Witness ==
    /\ pc = "END"
    /\ Len(negotiation_history) = 3
    /\ finops_proposals = ExpectedSampleProposals
    /\ negotiation_history[1] = <<"FINOPS (Turn ", "1", ")", ":", "\n">>
                                \o JsonDumps(finops_proposals)
    /\ performance_feedback = PerformancePlaceholder(SampleNotJson)

(***************************************************************************)
(* Claims about the standalone agents, checked under ExtractSpec.          *)
(***************************************************************************)
\* C17 (as stated): the standalone code summarization applies the object
\* extraction of the moderator stage: when the text between the first "{"
\* and the last "}" of the completion is a valid JSON object, whatever
\* commentary surrounds it, that object is returned; the fallback record is
\* returned only when no object can be recovered.
C17_SummarizerRecoversObject ==
    op = "agents.code_summarizer" =>
        LET start_idx == Find(ResponseText, "{")
            end_idx == RFind(ResponseText, "}") + 1
        IN  (start_idx # -1 /\ end_idx > start_idx) =>
                LET embedded == JsonLoads(Slice(ResponseText, start_idx, end_idx))
                IN  (embedded.exc = "none" /\ IsDict(embedded.val))
                        => result = Returned(embedded.val)

\* C18 (as stated): every agent that parses a completion, the standalone
\* agents.finops, agents.moderator and agents.code_summarizer included,
\* handles an unparseable completion itself: it returns a value (a
\* placeholder) and raises nothing.
C18_AgentsNeverRaise ==
    op \in Nodes \cup {"agents.finops", "agents.moderator", "agents.code_summarizer"}
        => result.exc = "none"

(***************************************************************************)
(* The prompts, checked under Spec.                                        *)
(***************************************************************************)
\* C19: finops runs with an empty transcript in every run of the linear
\* graph, so its prompt always reads "Generate initial proposals." and never
\* "Previous feedback: ..."; no prompt of any stage holds a transcript entry.
C19_NoTranscriptInPrompts ==
    /\ pc = "finops" => negotiation_history = <<>>
    /\ \A i \in 1..Len(prompts) :
          /\ prompts[i][1] = "You are a FinOps Cloud Economist" =>
                 /\ Contains(prompts[i], <<"Generate initial proposals.">>)
                 /\ ~Contains(prompts[i], <<"Previous feedback">>)
          /\ \A j \in 1..Len(negotiation_history) :
                 ~Contains(prompts[i], negotiation_history[j])

\* All three prompts were sent; the moderator's holds the rendered proposals
\* and feedback, which the transcript entries hold too behind their headers.
C19_Witness ==
    /\ pc = "END"
    /\ Len(prompts) = 3
    /\ finops_proposals = ExpectedSampleProposals
    /\ Contains(prompts[1], <<"Generate initial proposals.">>)
    /\ Contains(prompts[2], JsonDumps(finops_proposals))
    /\ Contains(prompts[3], JsonDumps(performance_feedback))
    /\ Contains(negotiation_history[1], JsonDumps(finops_proposals))

(***************************************************************************)
(* The report's round trip, checked under Spec.                            *)
(***************************************************************************)
ModeratorHeader == <<"MODERATOR DECISION", ":", "\n">>

\* C20 (as stated): for every value the moderator stage can produce, the
\* report re-parses final_recommendation ("MODERATOR DECISION:" and the
\* rendered value) from the first "{" to the last "}" into exactly that
\* value, i.e. into the value whose rendering the text holds, and the
\* recommendation section never stays silently empty.
C20_ReportRoundTrip ==
    (pc = "END" /\ final_state # JObj(<<>>)) =>
        /\ ReportLoads(final_recommendation[2]).exc = "none"
        /\ ModeratorHeader \o JsonDumps(ReportLoads(final_recommendation[2]).val)
               = final_recommendation[2]
        /\ printed.recommendation[1] # "nothing"

====
